---- MODULE Spec2Model ----
(***************************************************************************)
(* The CI workflow .github/workflows/ci.yml of martin as a state machine.  *)
(* A workflow run is one job whose steps execute in order on a fresh       *)
(* runner; a `run:` step is a bash script.  Several runs may be in flight  *)
(* at once (the workflow declares no concurrency group); each has its own  *)
(* workspace, all share the registry (the ECR public repository "martin"   *)
(* and the image tag "latest").  A step that works on the run's workspace  *)
(* only is one transition; every call to the registry is one transition.   *)
(***************************************************************************)
EXTENDS Integers, Sequences, FiniteSets, TLC

\* Number of workflow runs in flight.
MaxRuns == 2

Runs == 1..MaxRuns

-----------------------------------------------------------------------------
(* Names used by the workflow *)

\* for target in "aarch64-unknown-linux-musl" "x86_64-unknown-linux-musl"
Targets == <<"aarch64-unknown-linux-musl", "x86_64-unknown-linux-musl">>

Triples == {Targets[i] : i \in 1..Len(Targets)}

\* cross build ... --package mbtiles ; cross build ... --package martin
Packages == <<"mbtiles", "martin">>

\* The binaries each package build leaves in target/$target/release.
PackageBins(pkg) == IF pkg = "mbtiles" THEN {"mbtiles"} ELSE {"martin", "martin-cp"}

\* mv target/$target/release/{martin,martin-cp,mbtiles} target_releases/$target
MovedBins == <<"martin", "martin-cp", "mbtiles">>

Binaries == {MovedBins[i] : i \in 1..Len(MovedBins)}

\* platforms: linux/arm64 and platforms: linux/amd64 of the two push steps
Platforms == {"linux/arm64", "linux/amd64"}

\* --repository-name martin
RepoName == "martin"

\* on: push, pull_request, workflow_dispatch
Events == {"push", "pull_request", "workflow_dispatch"}

ReleaseDir(t) == "target/" \o t \o "/release"

TripleDir(t) == "target_releases/" \o t

PlatformDir(p) == "target_releases/" \o p

\* The tag before any push of this workflow: it references no manifest.
NoTag == [platforms |-> {}, by |-> 0]

-----------------------------------------------------------------------------
(* The steps of the job, in file order *)

\* The job with the provisioning step placed ahead of the builds.
StepsProvisionFirst ==
  << "install-cross", "checkout", "rust-cache", "init-database", "setup-qemu",
     "setup-buildx", "ensure-repository", "build-targets", "upload-artifact",
     "reorganize", "start-nginx", "copy-static", "configure-aws", "ecr-login",
     "push-arm64", "push-amd64" >>

Steps ==
  << "install-cross", "checkout", "rust-cache", "init-database", "setup-qemu",
     "setup-buildx", "build-targets", "upload-artifact", "reorganize",
     "start-nginx", "copy-static", "ensure-repository", "configure-aws",
     "ecr-login", "push-arm64", "push-amd64" >>

\* Steps that are `uses:` actions with no effect on the modelled state.
ActionSteps ==
  {"install-cross", "checkout", "setup-qemu", "setup-buildx", "upload-artifact",
   "start-nginx"}

\* `run:` steps whose commands touch neither the workspace's binaries nor the
\* registry (tests/fixtures/initdb.sh, cp -r of the fixtures, aws configure set).
OpaqueRunSteps == {"init-database", "copy-static", "configure-aws"}

\* The two push steps with their platforms exchanged.
PushPlatformSwapped(step) == IF step = "push-arm64" THEN "linux/amd64" ELSE "linux/arm64"

\* The platform each push step names.
PushPlatform(step) == IF step = "push-arm64" THEN "linux/arm64" ELSE "linux/amd64"

PushSteps == {"push-arm64", "push-amd64"}

\* if: github.event_name != 'release' && github.event_name != 'workflow_dispatch'
CacheCondition(ev) == ev # "release" /\ ev # "workflow_dispatch"

\* A shell started without -e.
NoErrExit == FALSE

\* shell: bash  -- the runner starts `bash --noprofile --norc -eo pipefail {0}`:
\* a failing command ends the script with that command's status.
ErrExit == TRUE

(* An iteration that moves each package's binaries right after its build. *)
BuildIterationMoveEarly(t) ==
  << [op |-> "export", target |-> t, what |-> "RUSTFLAGS", src |-> "", dst |-> ""],
     [op |-> "build", target |-> t, what |-> Packages[1], src |-> "", dst |-> ReleaseDir(t)],
     [op |-> "mkdir", target |-> t, what |-> "", src |-> "", dst |-> TripleDir(t)],
     [op |-> "mv", target |-> t, what |-> MovedBins[3], src |-> ReleaseDir(t), dst |-> TripleDir(t)],
     [op |-> "build", target |-> t, what |-> Packages[2], src |-> "", dst |-> ReleaseDir(t)],
     [op |-> "mv", target |-> t, what |-> MovedBins[1], src |-> ReleaseDir(t), dst |-> TripleDir(t)],
     [op |-> "mv", target |-> t, what |-> MovedBins[2], src |-> ReleaseDir(t), dst |-> TripleDir(t)] >>

(* The commands of one loop iteration of "Build targets". *)
BuildIteration(t) ==
  << [op |-> "export", target |-> t, what |-> "RUSTFLAGS", src |-> "", dst |-> ""],
     [op |-> "build", target |-> t, what |-> Packages[1], src |-> "", dst |-> ReleaseDir(t)],
     [op |-> "build", target |-> t, what |-> Packages[2], src |-> "", dst |-> ReleaseDir(t)],
     [op |-> "mkdir", target |-> t, what |-> "", src |-> "", dst |-> TripleDir(t)],
     [op |-> "mv", target |-> t, what |-> MovedBins[1], src |-> ReleaseDir(t), dst |-> TripleDir(t)],
     [op |-> "mv", target |-> t, what |-> MovedBins[2], src |-> ReleaseDir(t), dst |-> TripleDir(t)],
     [op |-> "mv", target |-> t, what |-> MovedBins[3], src |-> ReleaseDir(t), dst |-> TripleDir(t)] >>

BuildScript == BuildIteration(Targets[1]) \o BuildIteration(Targets[2])

\* Both triples moved into the same platform directory.
ReorganizeScriptSameDst ==
  << [op |-> "mkdir", target |-> Targets[1], what |-> "", src |-> "", dst |-> PlatformDir("linux/arm64")],
     [op |-> "mvglob", target |-> Targets[1], what |-> "*", src |-> TripleDir(Targets[1]),
      dst |-> PlatformDir("linux/arm64")],
     [op |-> "mkdir", target |-> Targets[2], what |-> "", src |-> "", dst |-> PlatformDir("linux/amd64")],
     [op |-> "mvglob", target |-> Targets[2], what |-> "*", src |-> TripleDir(Targets[2]),
      dst |-> PlatformDir("linux/arm64")] >>

ReorganizeScript ==
  << [op |-> "mkdir", target |-> Targets[1], what |-> "", src |-> "", dst |-> PlatformDir("linux/arm64")],
     [op |-> "mvglob", target |-> Targets[1], what |-> "*", src |-> TripleDir(Targets[1]),
      dst |-> PlatformDir("linux/arm64")],
     [op |-> "mkdir", target |-> Targets[2], what |-> "", src |-> "", dst |-> PlatformDir("linux/amd64")],
     [op |-> "mvglob", target |-> Targets[2], what |-> "*", src |-> TripleDir(Targets[2]),
      dst |-> PlatformDir("linux/amd64")] >>

EnsureScript ==
  << [op |-> "describe", target |-> "", what |-> RepoName, src |-> "", dst |-> ""],
     [op |-> "create", target |-> "", what |-> RepoName, src |-> "", dst |-> ""] >>

LoginScript == << [op |-> "login", target |-> "", what |-> "public.ecr.aws", src |-> "", dst |-> ""] >>

Script(step) ==
  CASE step = "build-targets" -> BuildScript
    [] step = "reorganize" -> ReorganizeScript
    [] step = "ensure-repository" -> EnsureScript
    [] step = "ecr-login" -> LoginScript
    [] OTHER -> << >>

\* The `run:` steps that are scripts over the workspace only.
LocalRunSteps == {"build-targets", "reorganize"}

\* The `run:` steps that call the registry.
RegistryRunSteps == {"ensure-repository", "ecr-login"}

-----------------------------------------------------------------------------
VARIABLES
  pc,      \* pc[r]: index of the step run r is at (Len(Steps) + 1: past the last)
  cmd,     \* cmd[r]: index of the next command of a registry script
  status,  \* status[r]: "running", "success" or "failure" (the job's conclusion)
  files,   \* files[r]: the binaries in run r's workspace
  dirs,    \* dirs[r]: the directories that exist in run r's workspace
  log,     \* log[r]: the commands run r's workspace scripts have executed
  calls,   \* calls[r]: the registry calls run r has made
  repos,   \* the repositories that exist in the registry
  tag      \* the manifest the tag martin:latest references

vars == <<pc, cmd, status, files, dirs, log, calls, repos, tag>>

-----------------------------------------------------------------------------
(* The workspace and the shell *)

\* The characters of each target triple, as `echo $target` writes them.
TargetChars ==
  [t \in Triples |->
     IF t = "aarch64-unknown-linux-musl"
     THEN <<"a", "a", "r", "c", "h", "6", "4", "-", "u", "n", "k", "n", "o",
          "w", "n", "-", "l", "i", "n", "u", "x", "-", "m", "u", "s", "l">>
     ELSE <<"x", "8", "6", "_", "6", "4", "-", "u", "n", "k", "n", "o", "w",
          "n", "-", "l", "i", "n", "u", "x", "-", "m", "u", "s", "l">>]

\* tr 'a-z-' 'A-Z_': the i-th character of the first set becomes the i-th of
\* the second, every other character is left as it is.
TrFrom ==
  <<"a", "b", "c", "d", "e", "f", "g", "h", "i", "j", "k", "l", "m",
     "n", "o", "p", "q", "r", "s", "t", "u", "v", "w", "x", "y", "z", "-">>

TrTo ==
  <<"A", "B", "C", "D", "E", "F", "G", "H", "I", "J", "K", "L", "M",
     "N", "O", "P", "Q", "R", "S", "T", "U", "V", "W", "X", "Y", "Z", "_">>

Tr(ch) ==
  IF \E i \in DOMAIN TrFrom : TrFrom[i] = ch
  THEN TrTo[CHOOSE i \in DOMAIN TrFrom : TrFrom[i] = ch]
  ELSE ch

RECURSIVE Join(_)
Join(cs) == IF cs = << >> THEN "" ELSE cs[1] \o Join(Tail(cs))

\* $(echo $target | tr 'a-z-' 'A-Z_')
TrTarget == [t \in Triples |-> Join([i \in DOMAIN TargetChars[t] |-> Tr(TargetChars[t][i])])]

\* export "CARGO_TARGET_$(echo $target | tr 'a-z-' 'A-Z_')_RUSTFLAGS"
RustflagsVar(t) == "CARGO_TARGET_" \o TrTarget[t] \o "_RUSTFLAGS"

\* The binaries a restored cache of an earlier run leaves under target/.
StaleFiles ==
  {[dir |-> ReleaseDir(t), name |-> b, arch |-> t, gen |-> "stale"] : t \in Triples, b \in Binaries}

\* What a successful build of package pkg for triple t writes.
BuiltFiles(t, pkg) ==
  {[dir |-> ReleaseDir(t), name |-> b, arch |-> t, gen |-> "fresh"] : b \in PackageBins(pkg)}

\* Writing a set of files replaces whatever was at the same paths.
WriteFiles(fs, new) ==
  {f \in fs : ~\E n \in new : n.dir = f.dir /\ n.name = f.name} \cup new

FilesIn(fs, d) == {f \in fs : f.dir = d}

\* A log entry: the command, its result and, for a build, the variables
\* exported in the shell that ran it.
Entry(c, res, e) ==
  [op |-> c.op, target |-> c.target, what |-> c.what, res |-> res, env |-> e]

(* The commands of a script act on the shell's state sh: the workspace     *)
(* (files, dirs), the exported variables (env), the run's log and the exit *)
(* status of the last command (ok).                                        *)

\* An assignment that replaces the exported variables by the new one.
ExportOnly(sh, c) ==
  [sh EXCEPT !.env = {[name |-> RustflagsVar(c.target), value |-> "-C strip=debuginfo"]},
             !.ok = TRUE]

\* export "CARGO_TARGET_..._RUSTFLAGS"='-C strip=debuginfo'
Export(sh, c) ==
  [sh EXCEPT !.env = @ \cup {[name |-> RustflagsVar(c.target), value |-> "-C strip=debuginfo"]},
             !.ok = TRUE]

\* cross build --release --target $target --package <pkg>, exiting zero (built) or not
CrossBuild(sh, c, built) ==
  IF built
  THEN [sh EXCEPT !.files = WriteFiles(@, BuiltFiles(c.target, c.what)),
                  !.dirs = @ \cup {c.dst},
                  !.log = Append(@, Entry(c, "ok", sh.env)),
                  !.ok = TRUE]
  ELSE [sh EXCEPT !.log = Append(@, Entry(c, "fail", sh.env)), !.ok = FALSE]

\* mkdir -p <dst>
Mkdir(sh, c) == [sh EXCEPT !.dirs = @ \cup {c.dst}, !.ok = TRUE]

\* cp in place of mv: the files stay where they were.
CopyInto(sh, c, moved) ==
  IF moved # {} /\ c.dst \in sh.dirs
  THEN [sh EXCEPT !.files = WriteFiles(@, {[f EXCEPT !.dir = c.dst] : f \in moved}),
                  !.log = Append(@, Entry(c, "ok", {})),
                  !.ok = TRUE]
  ELSE [sh EXCEPT !.log = Append(@, Entry(c, "fail", {})), !.ok = FALSE]

\* mv of the files `moved` into the directory c.dst: it fails when there is
\* nothing to move or no such directory.
MoveInto(sh, c, moved) ==
  IF moved # {} /\ c.dst \in sh.dirs
  THEN [sh EXCEPT !.files = WriteFiles(@ \ moved, {[f EXCEPT !.dir = c.dst] : f \in moved}),
                  !.log = Append(@, Entry(c, "ok", {})),
                  !.ok = TRUE]
  ELSE [sh EXCEPT !.log = Append(@, Entry(c, "fail", {})), !.ok = FALSE]

\* mv <src>/<binary> <dst>
Mv(sh, c) == MoveInto(sh, c, {f \in FilesIn(sh.files, c.src) : f.name = c.what})

\* mv <src>/* <dst>/ : the glob matches nothing when src is empty or absent,
\* and mv then fails on the literal pattern.
MvGlob(sh, c) == MoveInto(sh, c, FilesIn(sh.files, c.src))

Exec(sh, c, built) ==
  CASE c.op = "export" -> Export(sh, c)
    [] c.op = "build" -> CrossBuild(sh, c, built)
    [] c.op = "mkdir" -> Mkdir(sh, c)
    [] c.op = "mv" -> Mv(sh, c)
    [] c.op = "mvglob" -> MvGlob(sh, c)

(* bash runs the commands of a script from the i-th on.  Under errexit a   *)
(* failing command ends the script; otherwise the script goes on, and its  *)
(* exit status is that of its last command.  builds[j] tells whether the   *)
(* cross build at position j exits zero.                                   *)
RECURSIVE RunScript(_, _, _, _)
RunScript(script, i, sh, builds) ==
  IF i > Len(script)
  THEN sh
  ELSE LET after == Exec(sh, script[i], script[i].op = "build" /\ builds[i]) IN
       IF ~after.ok /\ ErrExit
       THEN after
       ELSE RunScript(script, i + 1, after, builds)

\* The outcomes the cross builds of a script can have: all exit zero, or the
\* one at position f is the first to exit nonzero (no build runs after it).
BuildOutcomes(script) ==
  LET B == {i \in DOMAIN script : script[i].op = "build"}
  IN {[i \in B |-> i # f] : f \in B \cup {0}}

-----------------------------------------------------------------------------
(* The job *)

Running(r) == status[r] = "running" /\ pc[r] <= Len(Steps)

CurStep(r) == Steps[pc[r]]

CurCmd(r) == Script(CurStep(r))[cmd[r]]

AtCommand(r, op) == Running(r) /\ CurStep(r) \in RegistryRunSteps /\ CurCmd(r).op = op

\* A registry call and its result.
Call(op, target, what, res) == [op |-> op, target |-> target, what |-> what, res |-> res]

Called(r, c, res) == calls' = [calls EXCEPT ![r] = Append(@, Call(c.op, c.target, c.what, res))]

\* `describe-repositories || create-repository || true`.
EnsureExitIgnored(describeOk, createOk) == TRUE

\* The exit status of `describe-repositories || create-repository`.
EnsureExit(describeOk, createOk) == describeOk \/ createOk

(* Every step marked continue-on-error: a failed step does not stop the job. *)
FinishStepContinue(r, ok) ==
  /\ pc' = [pc EXCEPT ![r] = @ + 1]
  /\ cmd' = [cmd EXCEPT ![r] = 1]
  /\ status' = [status EXCEPT ![r] = IF pc[r] = Len(Steps) THEN "success" ELSE "running"]

(* A step's conclusion.  Every step runs under the default condition      *)
(* `if: success()`: after a failed step no later step runs and the job    *)
(* fails; after the last step succeeds the job succeeds.                  *)
FinishStep(r, ok) ==
  /\ pc' = [pc EXCEPT ![r] = IF ok THEN @ + 1 ELSE @]
  /\ cmd' = [cmd EXCEPT ![r] = IF ok THEN 1 ELSE @]
  /\ status' = [status EXCEPT ![r] =
                  IF ~ok THEN "failure"
                  ELSE IF pc[r] = Len(Steps) THEN "success" ELSE "running"]

-----------------------------------------------------------------------------
Init ==
  /\ pc = [r \in Runs |-> 1]
  /\ cmd = [r \in Runs |-> 1]
  /\ status = [r \in Runs |-> "running"]
  /\ files = [r \in Runs |-> {}]
  /\ dirs = [r \in Runs |-> {}]
  /\ log = [r \in Runs |-> << >>]
  /\ calls = [r \in Runs |-> << >>]
  /\ repos \in {{}, {RepoName}}
  /\ tag = NoTag

(* A `uses:` step that does not touch the modelled state. *)
UsesStep(r) ==
  /\ Running(r) /\ CurStep(r) \in ActionSteps
  /\ \E ok \in BOOLEAN : FinishStep(r, ok)
  /\ UNCHANGED <<files, dirs, log, calls, repos, tag>>

(* Swatinem/rust-cache: skipped for workflow_dispatch; otherwise it may   *)
(* restore the target/ directory of an earlier run.                       *)
CacheStep(r) ==
  /\ Running(r) /\ CurStep(r) = "rust-cache"
  /\ \E ev \in Events :
       IF CacheCondition(ev)
       THEN \E outcome \in {"miss", "hit", "fail"} :
              /\ files' = [files EXCEPT ![r] = IF outcome = "hit" THEN StaleFiles ELSE @]
              /\ dirs' = [dirs EXCEPT ![r] =
                            IF outcome = "hit" THEN @ \cup {ReleaseDir(t) : t \in Triples} ELSE @]
              /\ FinishStep(r, outcome # "fail")
       ELSE /\ FinishStep(r, TRUE)
            /\ UNCHANGED <<files, dirs>>
  /\ UNCHANGED <<log, calls, repos, tag>>

(* Init database, Copy static files, Configure AWS credentials: the script *)
(* exits zero or nonzero and changes nothing that is modelled.             *)
OpaqueRunStep(r) ==
  /\ Running(r) /\ CurStep(r) \in OpaqueRunSteps
  /\ \E ok \in BOOLEAN : FinishStep(r, ok)
  /\ UNCHANGED <<files, dirs, log, calls, repos, tag>>

\* The shell a script starts in: nothing exported yet.
StartShell(fs, ds, l) == [files |-> fs, dirs |-> ds, env |-> {}, log |-> l, ok |-> TRUE]

\* The shells a script started in sh can end in, one per outcome of its builds.
ScriptRuns(script, sh) == {RunScript(script, 1, sh, builds) : builds \in BuildOutcomes(script)}

(* The runs of the two scripts from the workspaces they start in on a      *)
(* fresh runner, computed once: "Build targets" starts in an empty         *)
(* workspace or in one with the restored cache, "Reorganize artifacts"     *)
(* where a successful "Build targets" ended.                               *)
BuildStarts ==
  {StartShell({}, {}, << >>),
   StartShell(StaleFiles, {ReleaseDir(t) : t \in Triples}, << >>)}

BuildRuns == [sh \in BuildStarts |-> ScriptRuns(BuildScript, sh)]

ReorganizeStarts ==
  {StartShell(e.files, e.dirs, e.log) :
     e \in {sh \in UNION {BuildRuns[b] : b \in BuildStarts} : sh.ok}}

ReorganizeRuns == [sh \in ReorganizeStarts |-> ScriptRuns(ReorganizeScript, sh)]

LocalRuns ==
  [step \in LocalRunSteps |-> IF step = "build-targets" THEN BuildRuns ELSE ReorganizeRuns]

(* Build targets, Reorganize artifacts for docker build: one bash process  *)
(* runs the whole script on the run's own workspace, which no other run    *)
(* sees; the step ends with the script's exit status.                      *)
ScriptStep(r) ==
  /\ Running(r) /\ CurStep(r) \in LocalRunSteps
  /\ LET start == StartShell(files[r], dirs[r], log[r])
         known == LocalRuns[CurStep(r)]
     IN \E sh \in (IF start \in DOMAIN known
                    THEN known[start]
                    ELSE ScriptRuns(Script(CurStep(r)), start)) :
          /\ files' = [files EXCEPT ![r] = sh.files]
          /\ dirs' = [dirs EXCEPT ![r] = sh.dirs]
          /\ log' = [log EXCEPT ![r] = sh.log]
          /\ FinishStep(r, sh.ok)
  /\ UNCHANGED <<calls, repos, tag>>

(* `describe-repositories || true; create-repository`: the create call is *)
(* made whatever the describe call returned.                               *)
DescribeThenCreate(r) ==
  /\ AtCommand(r, "describe")
  /\ \E res \in {"ok", "NotFound", "Error"} :
       /\ res = "ok" => RepoName \in repos
       /\ res = "NotFound" => RepoName \notin repos
       /\ Called(r, CurCmd(r), res)
       /\ cmd' = [cmd EXCEPT ![r] = @ + 1]
       /\ UNCHANGED <<pc, status>>
  /\ UNCHANGED <<files, dirs, log, repos, tag>>

(* A provisioning script that tells the causes apart: create-repository is *)
(* run after a not-found answer only, any other describe error ends the    *)
(* step in failure.                                                        *)
DescribeNotFoundOnly(r) ==
  /\ AtCommand(r, "describe")
  /\ \E res \in {"ok", "NotFound", "Error"} :
       /\ res = "ok" => RepoName \in repos
       /\ res = "NotFound" => RepoName \notin repos
       /\ Called(r, CurCmd(r), res)
       /\ IF res = "NotFound"
          THEN /\ cmd' = [cmd EXCEPT ![r] = @ + 1]
               /\ UNCHANGED <<pc, status>>
          ELSE FinishStep(r, res = "ok")
  /\ UNCHANGED <<files, dirs, log, repos, tag>>

(* aws ecr-public describe-repositories --repository-name martin          *)
(* The left side of `||`: its failure, whatever the cause, runs the right  *)
(* side; its success ends the script.                                      *)
Describe(r) ==
  /\ AtCommand(r, "describe")
  /\ \E res \in {"ok", "NotFound", "Error"} :
       /\ res = "ok" => RepoName \in repos
       /\ res = "NotFound" => RepoName \notin repos
       /\ Called(r, CurCmd(r), res)
       /\ IF res = "ok"
          THEN FinishStep(r, EnsureExit(TRUE, FALSE))
          ELSE /\ cmd' = [cmd EXCEPT ![r] = @ + 1]
               /\ UNCHANGED <<pc, status>>
  /\ UNCHANGED <<files, dirs, log, repos, tag>>

(* aws ecr-public create-repository --repository-name martin *)
Create(r) ==
  /\ AtCommand(r, "create")
  /\ \E res \in {"ok", "AlreadyExists", "Error"} :
       /\ res = "ok" => RepoName \notin repos
       /\ res = "AlreadyExists" => RepoName \in repos
       /\ repos' = IF res = "ok" THEN repos \cup {RepoName} ELSE repos
       /\ Called(r, CurCmd(r), res)
       /\ FinishStep(r, EnsureExit(FALSE, res = "ok"))
  /\ UNCHANGED <<files, dirs, log, tag>>

(* `aws ecr-public get-login-password | docker login ... || true`: the     *)
(* step succeeds whether or not the login did.                             *)
LoginIgnored(r) ==
  /\ AtCommand(r, "login")
  /\ \E ok \in BOOLEAN :
       /\ Called(r, CurCmd(r), IF ok THEN "ok" ELSE "fail")
       /\ FinishStep(r, TRUE)
  /\ UNCHANGED <<files, dirs, log, repos, tag>>

(* aws ecr-public get-login-password | docker login ... (pipefail): the    *)
(* pipeline fails when either side does.                                   *)
Login(r) ==
  /\ AtCommand(r, "login")
  /\ \E ok \in BOOLEAN :
       /\ Called(r, CurCmd(r), IF ok THEN "ok" ELSE "fail")
       /\ FinishStep(r, ok)
  /\ UNCHANGED <<files, dirs, log, repos, tag>>

(* The push steps marked `continue-on-error: true`: the job goes on after  *)
(* a failed push.                                                          *)
PushContinueOnError(r) ==
  /\ Running(r) /\ CurStep(r) \in PushSteps
  /\ LET p == PushPlatform(CurStep(r)) IN
     \E ok \in BOOLEAN :
       /\ ok => RepoName \in repos
       /\ tag' = IF ok THEN [platforms |-> {p}, by |-> r] ELSE tag
       /\ calls' = [calls EXCEPT ![r] =
                      Append(@, Call("push", p, "latest", IF ok THEN "ok" ELSE "fail"))]
       /\ FinishStep(r, TRUE)
  /\ UNCHANGED <<files, dirs, log, repos>>

(* docker/build-push-action with platforms: <one platform>, push: true,   *)
(* tags: .../martin:latest.  A successful push makes the tag reference    *)
(* the image just built, which has that one platform.                     *)
Push(r) ==
  /\ Running(r) /\ CurStep(r) \in PushSteps
  /\ LET p == PushPlatform(CurStep(r)) IN
     \E ok \in BOOLEAN :
       /\ ok => RepoName \in repos
       /\ tag' = IF ok THEN [platforms |-> {p}, by |-> r] ELSE tag
       /\ calls' = [calls EXCEPT ![r] =
                      Append(@, Call("push", p, "latest", IF ok THEN "ok" ELSE "fail"))]
       /\ FinishStep(r, ok)
  /\ UNCHANGED <<files, dirs, log, repos>>

Step(r) ==
  \/ UsesStep(r)
  \/ CacheStep(r)
  \/ OpaqueRunStep(r)
  \/ ScriptStep(r)
  \/ Describe(r)
  \/ Create(r)
  \/ Login(r)
  \/ Push(r)

Next == \E r \in Runs : Step(r)

Spec == Init /\ [][Next]_vars

TypeOK ==
  /\ pc \in [Runs -> 1..(Len(Steps) + 1)]
  /\ cmd \in [Runs -> 1..Len(EnsureScript)]
  /\ status \in [Runs -> {"running", "success", "failure"}]
  /\ repos \subseteq {RepoName}
  /\ tag.platforms \subseteq Platforms
  /\ tag.by \in Runs \cup {0}

-----------------------------------------------------------------------------
(* Running the collect step again *)

\* Executions of "Reorganize artifacts for docker build" per workspace.
MaxCollects == 2

\* The position of each step in the job.
StepIndices == [s \in {Steps[i] : i \in DOMAIN Steps} |-> CHOOSE i \in DOMAIN Steps : Steps[i] = s]

StepIndex(step) == StepIndices[step]

\* mv target_releases/<triple>/* target_releases/<platform>/
PlatformOf(t) == IF t = "aarch64-unknown-linux-musl" THEN "linux/arm64" ELSE "linux/amd64"

\* How often run r's workspace has seen the script start its first move.
Collects(r) ==
  Cardinality({i \in DOMAIN log[r] : log[r][i].op = "mvglob" /\ log[r][i].target = Targets[1]})

(* The script of "Reorganize artifacts for docker build" executed once more *)
(* in the workspace it has already run in: the same bash -e script over    *)
(* the files the first execution left.                                     *)
Recollect(r) ==
  /\ pc[r] > StepIndex("reorganize")
  /\ Collects(r) < MaxCollects
  /\ LET sh == RunScript(ReorganizeScript, 1,
                         [files |-> files[r], dirs |-> dirs[r], env |-> {},
                          log |-> log[r], ok |-> TRUE],
                         [i \in {} |-> TRUE])
     IN /\ files' = [files EXCEPT ![r] = sh.files]
        /\ dirs' = [dirs EXCEPT ![r] = sh.dirs]
        /\ log' = [log EXCEPT ![r] = sh.log]
  /\ UNCHANGED <<pc, cmd, status, calls, repos, tag>>

NextCollect ==
  \/ Next
  \/ \E r \in Runs : Recollect(r)

SpecCollect == Init /\ [][NextCollect]_vars

-----------------------------------------------------------------------------
(* Vocabulary of the properties *)

Finished(r) == status[r] # "running"

\* Run r's scripts executed the command with this result.
Did(r, op, target, what, res) ==
  \E i \in DOMAIN log[r] :
    /\ log[r][i].op = op /\ log[r][i].target = target
    /\ log[r][i].what = what /\ log[r][i].res = res

\* Run r made the registry call op (with result res).
Made(r, op) == \E i \in DOMAIN calls[r] : calls[r][i].op = op

MadeWith(r, op, res) ==
  \E i \in DOMAIN calls[r] : calls[r][i].op = op /\ calls[r][i].res = res

LoggedIn(r) == \E i \in DOMAIN calls[r] : calls[r][i].op = "login" /\ calls[r][i].res = "ok"

Pushed(r) == Made(r, "push")

PushedWith(r, p, res) == \E i \in DOMAIN calls[r] : calls[r][i] = Call("push", p, "latest", res)

Populated(r, p) == LET d == PlatformDir(p) IN \E f \in files[r] : f.dir = d

\* The provisioning step of run r has succeeded.
Ready(r) == MadeWith(r, "describe", "ok") \/ MadeWith(r, "create", "ok")

\* Run r failed in the provisioning step: its last call is a failed create.
FailedProvisioning(r) ==
  /\ status[r] = "failure"
  /\ calls[r] # << >>
  /\ calls[r][Len(calls[r])].op = "create"
  /\ calls[r][Len(calls[r])].res # "ok"

BuildFailed(r, t) ==
  \E i \in DOMAIN log[r] :
    log[r][i].op = "build" /\ log[r][i].target = t /\ log[r][i].res = "fail"

BuildRun(r, t) == \E i \in DOMAIN log[r] : log[r][i].op = "build" /\ log[r][i].target = t

BuiltAll(r, t) == \A i \in 1..Len(Packages) : Did(r, "build", t, Packages[i], "ok")

Collected(r, t) == Did(r, "mvglob", t, "*", "ok")

\* The commands of run r's scripts that exited zero.
Succeeded(r) ==
  {<<log[r][i].op, log[r][i].target, log[r][i].what>> :
     i \in {j \in DOMAIN log[r] : log[r][j].res = "ok"}}

\* Every build of every target, every move into the per-triple directory and
\* every move into the platform directory.
StagingCommands ==
  {<<"build", t, pkg>> : t \in Triples, pkg \in {"mbtiles", "martin"}}
    \cup {<<"mv", t, b>> : t \in Triples, b \in {"martin", "martin-cp", "mbtiles"}}
    \cup {<<"mvglob", t, "*">> : t \in Triples}

AllStaged(r) == StagingCommands \subseteq Succeeded(r)

\* Every build and move, provisioning, login and both pushes succeeded.
AllStagesSucceeded(r) ==
  /\ AllStaged(r)
  /\ Ready(r)
  /\ LoggedIn(r)
  /\ \A p \in Platforms : PushedWith(r, p, "ok")

NoFailedCommand(r) ==
  /\ \A i \in DOMAIN log[r] : log[r][i].res = "ok"
  /\ \A i \in DOMAIN calls[r] : calls[r][i].op # "describe" => calls[r][i].res = "ok"

\* Run r's provisioning attempt is in flight: its describe call has returned
\* and the step has not yet ended.
Provisioning(r) == AtCommand(r, "create")

\* In this step run r makes the provisioning call op, which returns res.
Issues(r, op, res) == calls'[r] = Append(calls[r], Call(op, "", RepoName, res))

\* Run r is past its provisioning step.
Provisioned(r) == pc[r] > StepIndex("ensure-repository")

\* The names of the files run r's workspace has in directory d.
NamesIn(r, d) == {f.name : f \in FilesIn(files[r], d)}

\* The places a binary of triple t can be at: the builder's output
\* directory, the per-triple directory, the platform directory.
PlacesOf == [t \in Triples |-> {ReleaseDir(t), TripleDir(t), PlatformDir(PlatformOf(t))}]

\* Every binary of triple t in its platform directory, and nowhere else.
AllInPlatformDir == [t \in Triples |-> {<<PlatformDir(PlatformOf(t)), b>> : b \in Binaries}]

PlatformDirOf == [t \in Triples |-> PlatformDir(PlatformOf(t))]

\* Where run r's workspace has which binary of triple t.
Whereabouts(r, t) == {<<f.dir, f.name>> : f \in {g \in files[r] : g.dir \in PlacesOf[t]}}

\* Run r's describe-repositories call exited nonzero.
DescribeFailed(r) == MadeWith(r, "describe", "NotFound") \/ MadeWith(r, "describe", "Error")

\* Run r's create-repository call exited nonzero.
CreateFailed(r) == MadeWith(r, "create", "AlreadyExists") \/ MadeWith(r, "create", "Error")

\* The i-th command of the log l was the successful build of package pkg
\* for triple t.
BuiltAt(l, i, t, pkg) ==
  /\ l[i].op = "build" /\ l[i].target = t
  /\ l[i].what = pkg /\ l[i].res = "ok"

\* In the log l every move of a binary of triple t comes after the
\* successful mbtiles build and then the successful martin build of t.
MovesFollowBuilds(l, t) ==
  LET moves == {i \in DOMAIN l : l[i].op = "mv" /\ l[i].target = t}
      mbtiles == {i \in DOMAIN l : BuiltAt(l, i, t, "mbtiles")}
      martin == {i \in DOMAIN l : BuiltAt(l, i, t, "martin")}
  IN moves # {}
       => /\ mbtiles # {} /\ martin # {}
          /\ \A j \in mbtiles : \A k \in martin : j < k /\ \A i \in moves : k < i

\* In the log l a failed build is the last command, and no binary of its
\* triple was moved before it.
FailedBuildIsLast(l) ==
  \A i \in DOMAIN l :
    (l[i].op = "build" /\ l[i].res = "fail")
      => /\ i = Len(l)
         /\ \A j \in 1..(i - 1) : l[j].op = "mv" => l[j].target # l[i].target

\* In this step run r pushes platform p to the tag, with whatever result.
Pushes(r, p) ==
  \E res \in {"ok", "fail"} : calls'[r] = Append(calls[r], Call("push", p, "latest", res))

\* The variable from which Cargo takes the compiler flags of a target.
CargoFlagsVar(t) ==
  IF t = "aarch64-unknown-linux-musl"
  THEN "CARGO_TARGET_AARCH64_UNKNOWN_LINUX_MUSL_RUSTFLAGS"
  ELSE "CARGO_TARGET_X86_64_UNKNOWN_LINUX_MUSL_RUSTFLAGS"

StripFlag(t) == [name |-> CargoFlagsVar(t), value |-> "-C strip=debuginfo"]

\* The position of triple t in the loop of "Build targets".
TargetIndex(t) == CHOOSE k \in DOMAIN Targets : Targets[k] = t

\* What the shell has exported when it builds triple t: the variables of
\* the triples of the loop up to and including t.
ExportedFor == [t \in Triples |-> {StripFlag(Targets[k]) : k \in 1..TargetIndex(t)}]

\* The characters listed for each triple spell its name.
TargetsSpelled == \A t \in Triples : Join(TargetChars[t]) = t

\* The binaries a build of triple t leaves in platform directory p.
ExpectedIn ==
  [t \in Triples |->
     [p \in Platforms |->
        {[dir |-> "target_releases/" \o p, name |-> b, arch |-> t, gen |-> "fresh"] :
           b \in {"martin", "martin-cp", "mbtiles"}}]]

ExpectedBinaries(t, p) == ExpectedIn[t][p]

-----------------------------------------------------------------------------
(* C1: a run in which the push of one platform failed has not updated the   *)
(* tag: the tag never references a manifest written by such a run, which    *)
(* would lack a requested platform.                                         *)
C1_NoPartialPublish ==
  \A r \in Runs :
    (\E p \in Platforms : PushedWith(r, p, "fail")) => tag.by # r

(* C2: whenever a run reports success, the manifest the tag references      *)
(* contains every requested platform.                                       *)
C2_SuccessHasAllPlatforms ==
  \A r \in Runs : status[r] = "success" => tag.platforms = Platforms

(* C3: when two runs execute describe-then-create concurrently (both found  *)
(* the repository absent and both issued create), exactly one repository    *)
(* exists afterwards and neither run fails in the provisioning step: a      *)
(* create that fails with already-exists counts as Ready.                   *)
C3_ConcurrentEnsure ==
  \A r1, r2 \in Runs :
    ( /\ r1 # r2
      /\ MadeWith(r1, "describe", "NotFound") /\ MadeWith(r2, "describe", "NotFound")
      /\ Made(r1, "create") /\ Made(r2, "create")
      /\ ~MadeWith(r1, "create", "Error") /\ ~MadeWith(r2, "create", "Error") )
    => /\ Cardinality(repos) = 1
       /\ ~FailedProvisioning(r1)
       /\ ~FailedProvisioning(r2)

(* C4: a failed build of one target does not keep the other targets from    *)
(* being built: a finished run with a failed build has run the builds of    *)
(* every target, and its result is failure.                                 *)
C4_SiblingBuildsContinue ==
  \A r \in Runs :
    (Finished(r) /\ \E t \in Triples : BuildFailed(r, t))
    => /\ status[r] = "failure"
       /\ \A t \in Triples : BuildRun(r, t)

(* C5: provisioning is executed at most once per run, starts only after     *)
(* every target is built and collected into its platform directory, and no  *)
(* push starts before provisioning has succeeded.                           *)
C5_StageOrdering ==
  \A r \in Runs :
    /\ (Made(r, "describe") \/ Made(r, "create"))
         => AllStaged(r) /\ \A p \in Platforms : Populated(r, p)
    /\ \A i \in DOMAIN calls[r] :
      /\ calls[r][i].op \in {"describe", "create"}
           => \A j \in (i + 1)..Len(calls[r]) : calls[r][j].op # calls[r][i].op
      /\ calls[r][i].op = "push"
           => /\ RepoName \in repos
              /\ \E j \in 1..(i - 1) :
                   /\ calls[r][j].op \in {"describe", "create"}
                   /\ calls[r][j].res = "ok"

C5_Witness ==
  \E r \in Runs : Pushed(r) /\ MadeWith(r, "create", "ok")

(* C6: if create-repository fails for a reason other than already-exists,   *)
(* the run ends in failure, attempts no push, and leaves the tag as it was. *)
C6_FatalCreateStopsRun ==
  \A r \in Runs :
    MadeWith(r, "create", "Error")
      => status[r] = "failure" /\ ~Pushed(r) /\ tag.by # r

C6_Witness ==
  \E r \in Runs : MadeWith(r, "create", "Error") /\ Finished(r)

(* C7: no push is attempted unless every requested platform has a non-empty *)
(* directory in the staging tree; a finished run with a missing or empty    *)
(* platform directory has failed, pushed nothing and not changed the tag.   *)
C7_PushNeedsStagingTree ==
  \A r \in Runs :
    /\ Pushed(r) => \A p \in Platforms : Populated(r, p)
    /\ (Finished(r) /\ \E p \in Platforms : ~Populated(r, p))
         => status[r] = "failure" /\ ~Pushed(r) /\ tag.by # r

C7_Witness ==
  \E r1, r2 \in Runs :
    /\ Pushed(r1) /\ \A p \in Platforms : Populated(r1, p)
    /\ Finished(r2) /\ log[r2] # << >> /\ \E p \in Platforms : ~Populated(r2, p)

(* C8: in a finished run where the first target built and the second        *)
(* target's build exited nonzero, the result is failure, linux/arm64 is the *)
(* only populated platform directory and no push was invoked.               *)
C8_SecondBuildFails ==
  \A r \in Runs :
    (Finished(r) /\ BuiltAll(r, Targets[1]) /\ BuildFailed(r, Targets[2]))
    => /\ status[r] = "failure"
       /\ Populated(r, "linux/arm64")
       /\ ~Populated(r, "linux/amd64")
       /\ ~Pushed(r)

(* C9: a finished run is a success if and only if every build, every move,  *)
(* provisioning, login and both pushes succeeded; a failed build, move,     *)
(* create, login or push leaves the run failed.                             *)
C9_SuccessIffAllStages ==
  \A r \in Runs :
    /\ status[r] = "success" => AllStagesSucceeded(r) /\ NoFailedCommand(r)
    /\ status[r] # "failure" => NoFailedCommand(r)
    /\ (Finished(r) /\ AllStagesSucceeded(r) /\ NoFailedCommand(r)) => status[r] = "success"

C9_Witness ==
  \E r1, r2 \in Runs :
    /\ status[r1] = "success"
    /\ status[r2] = "failure" /\ Made(r2, "login") /\ ~LoggedIn(r2)

(* C10: once a triple is built and collected, its platform directory        *)
(* (aarch64 -> linux/arm64, x86_64 -> linux/amd64) holds exactly the        *)
(* binaries that triple's build produced: none of another architecture and  *)
(* none left over from an earlier build.                                    *)
C10_PlatformDirExact ==
  \A r \in Runs :
    /\ Collected(r, "aarch64-unknown-linux-musl")
         => FilesIn(files[r], "target_releases/linux/arm64")
              = ExpectedBinaries("aarch64-unknown-linux-musl", "linux/arm64")
    /\ Collected(r, "x86_64-unknown-linux-musl")
         => FilesIn(files[r], "target_releases/linux/amd64")
              = ExpectedBinaries("x86_64-unknown-linux-musl", "linux/amd64")

C10_Witness ==
  \E r \in Runs :
    /\ Collected(r, "aarch64-unknown-linux-musl")
    /\ Collected(r, "x86_64-unknown-linux-musl")

(* C11: running the collect step a second time for the same bundle          *)
(* succeeds (no move of an already collected target fails) and the platform *)
(* directory holds the same contents as after the first run.                *)
C11_CollectIdempotent ==
  \A r \in Runs : \A t \in Triples :
    Collected(r, t)
      => /\ ~Did(r, "mvglob", t, "*", "fail")
         /\ FilesIn(files[r], PlatformDir(PlatformOf(t))) = ExpectedBinaries(t, PlatformOf(t))

(* C12: provisioning is a critical section keyed by the repository name:    *)
(* at no time are the provisioning attempts of two overlapping runs in      *)
(* flight together.                                                         *)
C12_ProvisioningSerialized ==
  \A r1, r2 \in Runs :
    r1 # r2 => ~(Provisioning(r1) /\ Provisioning(r2))

(* C13: when describe-repositories finds the repository present, the       *)
(* provisioning step ends successfully right there, leaving the set of      *)
(* repositories as it was, and the run issues no create-repository call;    *)
(* so runs that provision after a successful creation create nothing.       *)
C13_PresentNoCreate ==
  [][\A r \in Runs :
       /\ Issues(r, "describe", "ok")
            => /\ repos' = repos
               /\ pc'[r] = pc[r] + 1
               /\ status'[r] = "running"
       /\ (\E res \in {"ok", "AlreadyExists", "Error"} : Issues(r, "create", res))
            => ~MadeWith(r, "describe", "ok")]_vars

C13_Witness ==
  \E r1, r2 \in Runs :
    /\ MadeWith(r1, "create", "ok")
    /\ MadeWith(r2, "describe", "ok") /\ Provisioned(r2) /\ Ready(r2)

(* C14: a failure of provisioning or of a platform's push ends the run at   *)
(* that step: after a failed create-repository neither the login nor any    *)
(* push is started, and after a failed linux/arm64 push the linux/amd64     *)
(* push is never started.                                                   *)
C14_FailureAborts ==
  \A r \in Runs :
    /\ (MadeWith(r, "create", "AlreadyExists") \/ MadeWith(r, "create", "Error"))
         => /\ status[r] = "failure"
            /\ pc[r] = StepIndex("ensure-repository")
            /\ ~Made(r, "login") /\ ~Pushed(r)
    /\ \A p \in Platforms :
         PushedWith(r, p, "fail")
           => /\ status[r] = "failure"
              /\ Steps[pc[r]] \in PushSteps /\ PushPlatform(Steps[pc[r]]) = p
              /\ calls[r][Len(calls[r])] = Call("push", p, "latest", "fail")

C14_Witness ==
  \E r1, r2 \in Runs :
    /\ MadeWith(r1, "create", "AlreadyExists") /\ Finished(r1)
    /\ PushedWith(r2, "linux/arm64", "fail") /\ Finished(r2)

(* C15: collect moves, it does not copy: once a target is collected, its    *)
(* platform directory exists and holds martin, martin-cp and mbtiles under  *)
(* those names, and neither the builder's output directory nor the          *)
(* per-triple directory holds any of them any more.                         *)
C15_CollectMoves ==
  \A r \in Runs : \A t \in Triples :
    Collected(r, t)
      => /\ PlatformDirOf[t] \in dirs[r]
         /\ Whereabouts(r, t) = AllInPlatformDir[t]

C15_Witness ==
  \E r \in Runs : \A t \in Triples :
    /\ Collected(r, t)
    /\ TripleDir(t) \in dirs[r] /\ ReleaseDir(t) \in dirs[r]
    /\ NamesIn(r, PlatformDir(PlatformOf(t))) = Binaries
    /\ NamesIn(r, TripleDir(t)) = {} /\ NamesIn(r, ReleaseDir(t)) = {}

(* C16: every push of a run comes after a successful registry login of     *)
(* that run, and a run whose login failed has ended in failure without      *)
(* attempting a push or changing the tag.                                   *)
C16_LoginBeforePush ==
  \A r \in Runs :
    /\ \A i \in DOMAIN calls[r] :
         calls[r][i].op = "push"
           => \E j \in 1..(i - 1) : calls[r][j].op = "login" /\ calls[r][j].res = "ok"
    /\ (Made(r, "login") /\ ~LoggedIn(r))
         => status[r] = "failure" /\ ~Pushed(r) /\ tag.by # r

C16_Witness ==
  \E r1, r2 \in Runs :
    /\ LoggedIn(r1) /\ PushedWith(r1, "linux/arm64", "ok")
    /\ Made(r2, "login") /\ ~LoggedIn(r2) /\ Finished(r2)

(* C17: create-repository is issued exactly when describe-repositories     *)
(* exited nonzero, whatever the cause (not found or any other error), and   *)
(* the provisioning step succeeds exactly when describe succeeded or the    *)
(* create that followed succeeded; it fails exactly when the create failed. *)
C17_CreateIffDescribeFails ==
  \A r \in Runs :
    /\ Made(r, "create") <=> (DescribeFailed(r) /\ ~AtCommand(r, "create"))
    /\ Provisioned(r) <=> Ready(r)
    /\ (status[r] = "failure" /\ pc[r] = StepIndex("ensure-repository")) <=> CreateFailed(r)

C17_Witness ==
  \E r1, r2 \in Runs :
    /\ MadeWith(r1, "describe", "Error") /\ MadeWith(r1, "create", "ok") /\ Provisioned(r1)
    /\ MadeWith(r2, "describe", "Error") /\ MadeWith(r2, "create", "AlreadyExists")
    /\ Finished(r2)

(* C18: whenever a run's build script has executed, every move of a binary  *)
(* of a triple into target_releases/<triple> comes after the successful     *)
(* mbtiles build and then the successful martin build of that triple; a     *)
(* failed build is the last command executed: none of that triple's         *)
(* binaries is moved, no later build is started, and the run fails.         *)
C18_MoveAfterBothBuilds ==
  [][\A r \in Runs :
       log'[r] # log[r]
         => /\ \A t \in Triples : MovesFollowBuilds(log'[r], t)
            /\ FailedBuildIsLast(log'[r])
            /\ \A t \in Triples :
                 BuildFailed(r, t)'
                   => /\ {f \in files'[r] : f.dir = TripleDir(t)} = {}
                      /\ status'[r] = "failure"]_vars

C18_Witness ==
  \E r1, r2 \in Runs :
    /\ Did(r1, "build", Targets[1], "martin", "fail")
    /\ Did(r2, "mv", Targets[1], "mbtiles", "ok")
    /\ Did(r2, "build", Targets[2], "mbtiles", "fail")

(* C19: the two pushes of a run are sequential and write the same tag:      *)
(* the linux/arm64 push is the run's first push, the linux/amd64 push       *)
(* starts only after the linux/arm64 push has succeeded, and when the run   *)
(* completes successfully the tag holds what its linux/amd64 push wrote.    *)
C19_PushesSequential ==
  [][\A r \in Runs :
       /\ Pushes(r, "linux/arm64") => ~Pushed(r)
       /\ Pushes(r, "linux/amd64")
            => /\ PushedWith(r, "linux/arm64", "ok")
               /\ ~PushedWith(r, "linux/amd64", "ok") /\ ~PushedWith(r, "linux/amd64", "fail")
       /\ (status[r] = "running" /\ status'[r] = "success")
            => /\ Pushes(r, "linux/amd64")
               /\ tag' = [platforms |-> {"linux/amd64"}, by |-> r]]_vars

C19_Witness ==
  \E r \in Runs :
    /\ status[r] = "success"
    /\ PushedWith(r, "linux/arm64", "ok") /\ PushedWith(r, "linux/amd64", "ok")
    /\ tag = [platforms |-> {"linux/amd64"}, by |-> r]

(* C20: every cross build of a triple runs with that triple's RUSTFLAGS     *)
(* variable, the one Cargo reads for it, exported as '-C strip=debuginfo',  *)
(* and with the variables of the triples built before it still exported     *)
(* with that value; nothing else is exported.                               *)
C20_StripFlagPerTriple ==
  /\ TargetsSpelled
  /\ \A r \in Runs : \A i \in DOMAIN log[r] :
       log[r][i].op = "build"
         => log[r][i].env = ExportedFor[log[r][i].target]

C20_Witness ==
  \E r \in Runs : \E i \in DOMAIN log[r] :
    /\ log[r][i].op = "build" /\ log[r][i].target = Targets[2] /\ log[r][i].res = "ok"
    /\ StripFlag(Targets[1]) \in log[r][i].env
    /\ StripFlag(Targets[2]) \in log[r][i].env

====
